---- MODULE Spec2Model ----
(***************************************************************************)
(* A model of src/docker/reduce_results.py: reduce_results reads one       *)
(* combined scan-result file, normalises the parsed JSON value into a list *)
(* of results, folds the results into a summary and writes two reports.    *)
(*                                                                         *)
(* JSON values are tagged records [t, v]:                                  *)
(*   null, num, list (a sequence of values), dict (a sequence of           *)
(*   <<key, value>> pairs in insertion order, keys distinct, as Python     *)
(*   keeps them), and two forms of Python str:                             *)
(*     Str(s)  - a string whose characters s are not a JSON text,          *)
(*     JStr(d) - the string json.dumps(d), the JSON text of the value d.   *)
(* A file is Missing or holds a str.                                       *)
(***************************************************************************)
EXTENDS Integers, Sequences, FiniteSets, TLC

VARIABLES
    pc,                 \* position in reduce_results
    combined_file_path, \* argument: a sequence of characters
    file,               \* what the file system holds at combined_file_path
    server_name,        \* local, line 22
    timestamp,          \* local, line 23
    combined_data,      \* local, lines 27, 41, 44
    idx,                \* number of elements of combined_data the for loop has consumed
    summary,            \* local, lines 33-37, updated by the loop
    log,                \* the logging calls made so far, in order
    out_dir_created,    \* whether output_dir.mkdir has run
    fs,                 \* the output files written so far
    raised_at,          \* where the exception that ended the run came from
    returned            \* the value returned to the caller

vars == <<pc, combined_file_path, file, server_name, timestamp, combined_data,
          idx, summary, log, out_dir_created, fs, raised_at, returned>>

----------------------------------------------------------------------------
(* Bounds of the model *)

MaxEntries == 3
MaxPathLen == 4

----------------------------------------------------------------------------
(* JSON values *)

Null == [t |-> "null", v |-> 0]
Num(n) == [t |-> "num", v |-> n]
Bool(b) == [t |-> "bool", v |-> b]
Str(s) == [t |-> "str", v |-> s]
JStr(d) == [t |-> "jstr", v |-> d]
List(s) == [t |-> "list", v |-> s]
Dict(s) == [t |-> "dict", v |-> s]

IsStr(x) == x.t \in {"str", "jstr"}
IsList(x) == x.t = "list"
IsDict(x) == x.t = "dict"

None == [t |-> "None", v |-> 0]

Ok(x) == [ok |-> TRUE, val |-> x]
Raise == [ok |-> FALSE, val |-> None]

\* dict.get(k, dflt)
Get(d, k, dflt) ==
    LET hits == {j \in 1..Len(d.v) : d.v[j][1] = k}
    IN  IF hits = {} THEN dflt ELSE d.v[CHOOSE j \in hits : TRUE][2]

\* len(x): TypeError for a value with no length.  A str has a length
\* too; the inputs drawn put no str where a length is taken.
PyLen(x) ==
    CASE x.t \in {"list", "dict"} -> Ok(Len(x.v))
      [] x.t \in {"null", "num", "bool"} -> Raise

\* Whether x can be a dict key (line 55): a list or a dict is unhashable.
Hashable(x) == x.t \notin {"list", "dict"}

\* bool(x), as `if match['via']:` takes it
Truthy(x) ==
    CASE x.t = "null" -> FALSE
      [] x.t = "num" -> x.v # 0
      [] x.t = "bool" -> x.v
      [] x.t = "str" -> x.v # ""
      [] x.t = "jstr" -> TRUE
      [] x.t \in {"list", "dict"} -> Len(x.v) > 0

\* Whether ', '.join(x) succeeds: x is iterable and yields only str.
Joinable(x) ==
    CASE x.t = "list" -> \A j \in 1..Len(x.v) : IsStr(x.v[j])
      [] x.t \in {"dict", "str", "jstr"} -> TRUE
      [] OTHER -> FALSE

\* json.loads(s) for a str s
json_loads(s) == IF s.t = "jstr" THEN Ok(s.v) ELSE Raise

\* open(path) + json.load(f)
Missing == [t |-> "missing", v |-> 0]
json_load(f) == IF f.t = "missing" THEN Raise ELSE json_loads(f)

----------------------------------------------------------------------------
(* Lines 20-23: the server name *)

basename(p) ==
    LET slashes == {j \in 1..Len(p) : p[j] = "/"}
        last == IF slashes = {} THEN 0
                ELSE CHOOSE j \in slashes : \A k \in slashes : k <= j
    IN  SubSeq(p, last + 1, Len(p))

\* s.split('_')[0]
SplitFirst(s) ==
    LET us == {j \in 1..Len(s) : s[j] = "_"}
        first == IF us = {} THEN Len(s) + 1
                 ELSE CHOOSE j \in us : \A k \in us : j <= k
    IN  SubSeq(s, 1, first - 1)

\* Mutant: the directory part is not dropped before the split.
ServerNameOfPath(p) == SplitFirst(p)

ServerName(p) == SplitFirst(basename(p))

JsonFilename(sn, ts) == sn \o <<"_", ts, "_", "reduced.json">>
TxtFilename(sn, ts) == sn \o <<"_", ts, "_", "summary.txt">>

----------------------------------------------------------------------------
(* Lines 32-37 *)

EmptySummary ==
    [total_findings |-> 0, findings_by_rule |-> <<>>, all_matches |-> <<>>]

\* Mutant: the count of a repeated key is added up, not overwritten.
SetItemSummed(d, k, n) ==
    LET hits == {j \in 1..Len(d) : d[j][1] = k}
    IN  IF hits = {} THEN Append(d, <<k, n>>)
        ELSE [d EXCEPT ![CHOOSE j \in hits : TRUE] = <<k, @[2] + n>>]

\* d[k] = n on a Python dict of <<key, value>> pairs
SetItem(d, k, n) ==
    LET hits == {j \in 1..Len(d) : d[j][1] = k}
    IN  IF hits = {} THEN Append(d, <<k, n>>)
        ELSE [d EXCEPT ![CHOOSE j \in hits : TRUE] = <<k, n>>]

\* Mutant: a string is not decoded a second time.
UnwrapSkipped(cd) == Ok(cd)

\* Lines 40-41
Unwrap(cd) == IF IsStr(cd) THEN json_loads(cd) ELSE Ok(cd)

\* Lines 43-44
AsList(cd) == IF ~IsList(cd) THEN List(<<cd>>) ELSE cd

\* Lines 89-96
SimplifiedFinding(rule_name, match) ==
    IF ~IsDict(match) THEN Raise
    ELSE LET start == Get(match, "start", Dict(<<>>))
             extra == Get(match, "extra", Dict(<<>>))
         IN  IF ~IsDict(start) \/ ~IsDict(extra) THEN Raise
             ELSE Ok([rule |-> rule_name,
                      path |-> Get(match, "path", Str("")),
                      line |-> Get(start, "line", Num(0)),
                      snippet |-> Get(extra, "lines", Str("")),
                      message |-> Get(extra, "message", Str("")),
                      type |-> Str("finding")])

\* Lines 62-73
SimplifiedVulnerability(rule_name, package_name, vuln_data) ==
    IF ~IsDict(vuln_data) THEN Raise
    ELSE Ok([rule |-> rule_name,
             package |-> Str(package_name),
             severity |-> Get(vuln_data, "severity", Str("")),
             is_direct |-> Get(vuln_data, "isDirect", Bool(FALSE)),
             via |-> Get(vuln_data, "via", List(<<>>)),
             effects |-> Get(vuln_data, "effects", List(<<>>)),
             version_range |-> Get(vuln_data, "range", Str("")),
             nodes |-> Get(vuln_data, "nodes", List(<<>>)),
             fix_available |-> Get(vuln_data, "fixAvailable", Bool(FALSE)),
             type |-> Str("vulnerability")])

\* Lines 88-97: the loop over matches; stops at the first exception.
RECURSIVE AppendFindings(_, _, _, _)
AppendFindings(all, rule_name, matches, j) ==
    IF j > Len(matches) THEN Ok(all)
    ELSE LET m == SimplifiedFinding(rule_name, matches[j])
         IN  IF ~m.ok THEN Raise
             ELSE AppendFindings(Append(all, m.val), rule_name, matches, j + 1)

\* Lines 61-74: the loop over vulnerabilities.items()
RECURSIVE AppendVulnerabilities(_, _, _, _)
AppendVulnerabilities(all, rule_name, items, j) ==
    IF j > Len(items) THEN Ok(all)
    ELSE LET m == SimplifiedVulnerability(rule_name, items[j][1], items[j][2])
         IN  IF ~m.ok THEN Raise
             ELSE AppendVulnerabilities(Append(all, m.val), rule_name, items, j + 1)

\* Lines 77-85
VulnerabilitySummary(result) ==
    LET md == Get(result, "metadata", Dict(<<>>))
    IN  IF ~IsDict(md) THEN Raise
        ELSE LET metadata == Get(md, "vulnerabilities", Dict(<<>>))
             IN  IF ~IsDict(metadata) THEN Raise
                 ELSE Ok([info |-> Get(metadata, "info", Num(0)),
                          low |-> Get(metadata, "low", Num(0)),
                          moderate |-> Get(metadata, "moderate", Num(0)),
                          high |-> Get(metadata, "high", Num(0)),
                          critical |-> Get(metadata, "critical", Num(0)),
                          total |-> Get(metadata, "total", Num(0))])

\* What `for match in matches` walks: the items of a list, the keys of a dict.
Iter(x) == IF x.t = "list" THEN x.v ELSE [j \in 1..Len(x.v) |-> Str(x.v[j][1])]

\* Mutant: the first package_scan's counts are kept (setdefault).
KeepFirstVulnerabilitySummary(s, vs) ==
    [k \in DOMAIN s \cup {"vulnerability_summary"} |->
        IF k = "vulnerability_summary" /\ k \notin DOMAIN s THEN vs ELSE s[k]]

\* summary['vulnerability_summary'] = vs
WithVulnerabilitySummary(s, vs) ==
    [k \in DOMAIN s \cup {"vulnerability_summary"} |->
        IF k = "vulnerability_summary" THEN vs ELSE s[k]]

\* Mutant: package_scan is handled as every other rule.
ExtractMatchesNoBranch(s, result, rule_name, matches) ==
    LET all == AppendFindings(s.all_matches, rule_name, Iter(matches), 1)
    IN  IF ~all.ok THEN [ok |-> FALSE, summary |-> s]
        ELSE [ok |-> TRUE, summary |-> [s EXCEPT !.all_matches = all.val]]

\* Lines 58-97, after the counters are updated: the package_scan branch
\* and the branch of every other rule.  A run that raises returns no
\* summary, so a raise keeps the summary as it was at the branch.
ExtractMatches(s, result, rule_name, matches) ==
    IF rule_name = Str("package_scan")
    THEN LET vulnerabilities == Get(result, "vulnerabilities", Dict(<<>>))
         IN  IF ~IsDict(vulnerabilities) THEN [ok |-> FALSE, summary |-> s]
             ELSE LET all == AppendVulnerabilities(s.all_matches, rule_name,
                                                   vulnerabilities.v, 1)
                      vs == VulnerabilitySummary(result)
                  IN  IF ~all.ok \/ ~vs.ok THEN [ok |-> FALSE, summary |-> s]
                      ELSE [ok |-> TRUE,
                            summary |-> WithVulnerabilitySummary(
                                [s EXCEPT !.all_matches = all.val], vs.val)]
    ELSE LET all == AppendFindings(s.all_matches, rule_name, Iter(matches), 1)
         IN  IF ~all.ok THEN [ok |-> FALSE, summary |-> s]
             ELSE [ok |-> TRUE, summary |-> [s EXCEPT !.all_matches = all.val]]

\* Mutant: the matches of a package_scan entry are left out of the total.
CountFindingsSkipPackage(s, rule_name, n) ==
    [s EXCEPT !.findings_by_rule = SetItem(@, rule_name, n),
              !.total_findings = IF rule_name = Str("package_scan") THEN @ ELSE @ + n]

\* Mutant: the total is assigned, not incremented.
CountFindingsOverwritten(s, rule_name, n) ==
    [s EXCEPT !.findings_by_rule = SetItem(@, rule_name, n),
              !.total_findings = n]

\* Lines 51-56: the per-rule count and the running total
CountFindings(s, rule_name, n) ==
    [s EXCEPT !.findings_by_rule = SetItem(@, rule_name, n),
              !.total_findings = @ + n]

\* Mutant: a skipped element is still counted, under "unknown".
SkipResultCounted(s) ==
    [ok |-> TRUE, summary |-> CountFindings(s, Str("unknown"), 0), warning |-> TRUE]

\* Lines 47-49: a result that is not a dict is skipped with a warning
SkipResult(s) == [ok |-> TRUE, summary |-> s, warning |-> TRUE]

\* Lines 47-97: one iteration of the for loop
ProcessResult(s, result) ==
    IF ~IsDict(result) THEN SkipResult(s)
    ELSE LET rule_name == Get(result, "rulename", Str("unknown"))
             matches == Get(result, "matches", List(<<>>))
             n == PyLen(matches)
         IN  IF ~n.ok \/ ~Hashable(rule_name)
             THEN [ok |-> FALSE, summary |-> s, warning |-> FALSE]
             ELSE LET r == ExtractMatches(CountFindings(s, rule_name, n.val),
                                          result, rule_name, matches)
                  IN  [ok |-> r.ok, summary |-> r.summary, warning |-> FALSE]

----------------------------------------------------------------------------
(* Lines 112-138: the text report, as the lines written.  A join of a    *)
(* value that is not a sequence of str raises, and the lines written     *)
(* before it stay in the file.                                           *)

ReportHead(s) ==
    <<<<"Security Scan Summary">>, <<"Total Findings", s.total_findings>>,
      <<"Findings by Rule">>>>
    \o [j \in 1..Len(s.findings_by_rule) |->
          <<"-", s.findings_by_rule[j][1], s.findings_by_rule[j][2]>>]
    \o <<<<"Detailed Findings">>>>

\* Lines 122-138 for one match
ReportMatch(match) ==
    IF match.type = Str("vulnerability")
    THEN LET l1 == <<<<"Rule", match.rule>>, <<"Package", match.package>>,
                     <<"Severity", match.severity>>,
                     <<"Direct Dependency", match.is_direct>>>>
             viaOk == ~Truthy(match.via) \/ Joinable(match.via)
             l2 == IF Truthy(match.via) THEN Append(l1, <<"Via", match.via>>) ELSE l1
             effOk == ~Truthy(match.effects) \/ Joinable(match.effects)
             l3 == IF Truthy(match.effects)
                   THEN Append(l2, <<"Effects", match.effects>>) ELSE l2
             l4 == Append(l3, <<"Affected Versions", match.version_range>>)
         IN  IF ~viaOk THEN [ok |-> FALSE, lines |-> l1]
             ELSE IF ~effOk THEN [ok |-> FALSE, lines |-> l2]
             ELSE IF ~Joinable(match.nodes) THEN [ok |-> FALSE, lines |-> l4]
             ELSE [ok |-> TRUE,
                   lines |-> l4 \o <<<<"Locations", match.nodes>>,
                                     <<"Fix Available", match.fix_available>>>>]
    ELSE LET l1 == <<<<"Rule", match.rule>>, <<"File", match.path, match.line>>,
                     <<"Finding", match.message>>>>
         IN  [ok |-> TRUE,
              lines |-> IF Truthy(match.snippet)
                        THEN Append(l1, <<"Code", match.snippet>>) ELSE l1]

RECURSIVE ReportDetails(_, _, _)
ReportDetails(lines, all, j) ==
    IF j > Len(all) THEN [ok |-> TRUE, lines |-> lines]
    ELSE LET r == ReportMatch(all[j])
         IN  IF ~r.ok THEN [ok |-> FALSE, lines |-> lines \o r.lines]
             ELSE ReportDetails(lines \o r.lines, all, j + 1)

WriteReport(s) == ReportDetails(ReportHead(s), s.all_matches, 1)

----------------------------------------------------------------------------
(* The inputs drawn *)

Pair(k, x) == <<k, x>>

mFull ==
    Dict(<<Pair("path", Str("a.py")), Pair("start", Dict(<<Pair("line", Num(5))>>)),
           Pair("extra", Dict(<<Pair("lines", Str("x==y")),
                                Pair("message", Str("use is"))>>))>>)
mBare == Dict(<<>>)
mNotDict == Str("oops")
mBadStart == Dict(<<Pair("start", Num(7))>>)

vLodash ==
    Dict(<<Pair("severity", Str("high")), Pair("isDirect", Bool(TRUE)),
           Pair("fixAvailable", Bool(TRUE))>>)
vAxios ==
    Dict(<<Pair("severity", Str("low")), Pair("via", List(<<Str("follow-redirects")>>)),
           Pair("nodes", List(<<Str("node_modules/axios")>>))>>)
vViaObject ==
    Dict(<<Pair("via", List(<<Dict(<<Pair("source", Num(1))>>)>>))>>)

\* Results of the shape the scanners produce, and one top-level element
\* that is not a mapping.
WellFormed ==
    { Num(42),
      Dict(<<Pair("rulename", Str("eqeq")), Pair("matches", List(<<mFull>>))>>),
      Dict(<<Pair("rulename", Str("eqeq")), Pair("matches", List(<<mFull, mBare>>)),
             Pair("vulnerabilities", Dict(<<Pair("lodash", vLodash)>>)),
             Pair("metadata", Dict(<<Pair("vulnerabilities",
                                          Dict(<<Pair("high", Num(1))>>))>>))>>),
      Dict(<<Pair("rulename", Str("eqeq"))>>),
      Dict(<<Pair("matches", List(<<mBare>>))>>),
      Dict(<<Pair("rulename", Str("package_scan")),
             Pair("vulnerabilities", Dict(<<Pair("lodash", vLodash)>>)),
             Pair("metadata", Dict(<<Pair("vulnerabilities",
                   Dict(<<Pair("high", Num(1)), Pair("total", Num(1))>>))>>))>>),
      Dict(<<Pair("rulename", Str("package_scan")), Pair("matches", List(<<mFull>>)),
             Pair("vulnerabilities",
                  Dict(<<Pair("lodash", vLodash), Pair("axios", vAxios)>>)),
             Pair("metadata", Dict(<<Pair("vulnerabilities",
                   Dict(<<Pair("info", Num(1)), Pair("low", Num(2)),
                          Pair("total", Num(3))>>))>>))>>),
      Dict(<<Pair("rulename", Str("package_scan"))>>) }

\* Results with a field of an unexpected shape.
Malformed ==
    { Dict(<<Pair("rulename", Str("eqeq")), Pair("matches", Null)>>),
      Dict(<<Pair("rulename", Str("eqeq")), Pair("matches", List(<<mNotDict>>))>>),
      Dict(<<Pair("rulename", Str("eqeq")), Pair("matches", List(<<mBadStart>>))>>),
      Dict(<<Pair("rulename", List(<<Str("eqeq")>>))>>),
      Dict(<<Pair("rulename", Str("package_scan")),
             Pair("vulnerabilities", List(<<Num(1)>>))>>),
      Dict(<<Pair("rulename", Str("package_scan")),
             Pair("vulnerabilities", Dict(<<Pair("lodash", Str("x"))>>))>>),
      Dict(<<Pair("rulename", Str("package_scan")), Pair("metadata", Num(5))>>),
      Dict(<<Pair("rulename", Str("package_scan")),
             Pair("vulnerabilities", Dict(<<Pair("lodash", vViaObject)>>))>>) }

SeqsUpTo(S, n) == UNION {[1..k -> S] : k \in 0..n}

\* The documents a file can hold: a list of results, a single result, a
\* short list with malformed results.
Documents ==
    {List(s) : s \in SeqsUpTo(WellFormed, MaxEntries)}
    \cup {List(s) : s \in SeqsUpTo(WellFormed \cup Malformed, MaxEntries - 1)}
    \cup WellFormed \cup Malformed

\* A file is missing, holds text that is not JSON, holds a document, or
\* holds a document encoded as a JSON string once or twice more.
Files ==
    {Missing, Str("not json"), JStr(Str("not json"))}
    \cup {JStr(d) : d \in Documents}
    \cup {JStr(JStr(d)) : d \in Documents}
    \cup {JStr(JStr(JStr(d))) : d \in WellFormed}

PathChars == {"s", "_", ".", "/"}
Paths == UNION {[1..k -> PathChars] : k \in 1..MaxPathLen}
\* "./results/combined/combined_results.json" of line 144, shortened
DefaultPath == <<"r", "/", "c", "_", "r", ".", "j">>
FewFiles ==
    {Missing, JStr(List(<<>>)), JStr(JStr(List(<<Num(42)>>)))}

Timestamps == {"20240101120000", "20240101120001"}

----------------------------------------------------------------------------
(* reduce_results as a state machine *)

Init ==
    /\ pc = "start"
    /\ \E p \in Paths \cup {DefaultPath}, f \in Files :
          /\ p = DefaultPath \/ f \in FewFiles
          /\ combined_file_path = p
          /\ file = f
    /\ server_name = <<>>
    /\ timestamp = ""
    /\ combined_data = None
    /\ idx = 0
    /\ summary = EmptySummary
    /\ log = <<>>
    /\ out_dir_created = FALSE
    /\ fs = <<>>
    /\ raised_at = ""
    /\ returned = None

\* Lines 18-23
Start ==
    /\ pc = "start"
    /\ log' = Append(log, "info")
    /\ server_name' = ServerName(combined_file_path)
    /\ \E ts \in Timestamps : timestamp' = ts
    /\ pc' = "read"
    /\ UNCHANGED <<combined_file_path, file, combined_data, idx, summary,
                   out_dir_created, fs, raised_at, returned>>

\* Lines 25-27 and 33-37: the file is read and parsed
ReadFile ==
    /\ pc = "read"
    /\ json_load(file).ok
    /\ combined_data' = json_load(file).val
    /\ summary' = EmptySummary
    /\ pc' = "normalize"
    /\ UNCHANGED <<combined_file_path, file, server_name, timestamp, idx, log,
                   out_dir_created, fs, raised_at, returned>>

\* Mutant: the exception is logged and swallowed; the run goes on with
\* an empty document.
ReadFailsSwallowed ==
    /\ pc = "read"
    /\ ~json_load(file).ok
    /\ log' = Append(log, "error")
    /\ combined_data' = List(<<>>)
    /\ pc' = "normalize"
    /\ UNCHANGED <<combined_file_path, file, server_name, timestamp,
                   idx, summary, out_dir_created, fs, raised_at, returned>>

\* Lines 28-29: the read or the parse failed; the error is logged
ReadFails ==
    /\ pc = "read"
    /\ ~json_load(file).ok
    /\ log' = Append(log, "error")
    /\ pc' = "reraise"
    /\ UNCHANGED <<combined_file_path, file, server_name, timestamp,
                   combined_data, idx, summary, out_dir_created, fs, raised_at,
                   returned>>

\* Line 30
Reraise ==
    /\ pc = "reraise"
    /\ pc' = "raised"
    /\ raised_at' = "read"
    /\ UNCHANGED <<combined_file_path, file, server_name, timestamp,
                   combined_data, idx, summary, log, out_dir_created, fs,
                   returned>>

\* Lines 40-44
Normalize ==
    /\ pc = "normalize"
    /\ LET d == Unwrap(combined_data)
       IN  IF d.ok
           THEN /\ combined_data' = AsList(d.val)
                /\ pc' = "loop"
                /\ UNCHANGED raised_at
           ELSE /\ pc' = "raised"
                /\ raised_at' = "decode"
                /\ UNCHANGED combined_data
    /\ idx' = 0
    /\ UNCHANGED <<combined_file_path, file, server_name, timestamp, summary,
                   log, out_dir_created, fs, returned>>

\* Lines 46-97: one iteration of the for loop
Loop ==
    /\ pc = "loop"
    /\ idx < Len(combined_data.v)
    /\ LET r == ProcessResult(summary, combined_data.v[idx + 1])
       IN  /\ summary' = r.summary
           /\ log' = IF r.warning THEN Append(log, "warning") ELSE log
           /\ IF r.ok
              THEN /\ idx' = idx + 1
                   /\ UNCHANGED <<pc, raised_at>>
              ELSE /\ pc' = "raised"
                   /\ raised_at' = "loop"
                   /\ UNCHANGED idx
    /\ UNCHANGED <<combined_file_path, file, server_name, timestamp,
                   combined_data, out_dir_created, fs, returned>>

\* Lines 100-101
MakeDir ==
    /\ pc = "loop"
    /\ idx = Len(combined_data.v)
    /\ out_dir_created' = TRUE
    /\ pc' = "write_json"
    /\ UNCHANGED <<combined_file_path, file, server_name, timestamp,
                   combined_data, idx, summary, log, fs, raised_at, returned>>

\* Lines 104-107
WriteJson ==
    /\ pc = "write_json"
    /\ fs' = Append(fs, [name |-> JsonFilename(server_name, timestamp),
                         content |-> summary])
    /\ pc' = "write_txt"
    /\ UNCHANGED <<combined_file_path, file, server_name, timestamp,
                   combined_data, idx, summary, log, out_dir_created, raised_at,
                   returned>>

\* Lines 110-138
WriteTxt ==
    /\ pc = "write_txt"
    /\ LET r == WriteReport(summary)
       IN  /\ fs' = Append(fs, [name |-> TxtFilename(server_name, timestamp),
                                content |-> r.lines])
           /\ IF r.ok
              THEN pc' = "finish" /\ UNCHANGED raised_at
              ELSE pc' = "raised" /\ raised_at' = "write_txt"
    /\ UNCHANGED <<combined_file_path, file, server_name, timestamp,
                   combined_data, idx, summary, log, out_dir_created, returned>>

\* Lines 140-141
Return ==
    /\ pc = "finish"
    /\ log' = Append(log, "info")
    /\ returned' = summary
    /\ pc' = "returned"
    /\ UNCHANGED <<combined_file_path, file, server_name, timestamp,
                   combined_data, idx, summary, out_dir_created, fs, raised_at>>

Next ==
    \/ Start
    \/ ReadFile
    \/ ReadFails
    \/ Reraise
    \/ Normalize
    \/ Loop
    \/ MakeDir
    \/ WriteJson
    \/ WriteTxt
    \/ Return

Spec == Init /\ [][Next]_vars

----------------------------------------------------------------------------
(* reduce_results as a function of the file: the steps above composed *)

\* Lines 46-97: the for loop from element j on
RECURSIVE FoldResults(_, _, _)
FoldResults(s, results, j) ==
    IF j > Len(results) THEN [ok |-> TRUE, summary |-> s]
    ELSE LET r == ProcessResult(s, results[j])
         IN  IF ~r.ok THEN [ok |-> FALSE, summary |-> r.summary]
             ELSE FoldResults(r.summary, results, j + 1)

\* Lines 25-141: what a run on file f returns, or that it raises
ReduceOf(f) ==
    LET p == json_load(f)
        d == Unwrap(p.val)
        r == FoldResults(EmptySummary, AsList(d.val).v, 1)
    IN  IF ~p.ok THEN [ok |-> FALSE, summary |-> EmptySummary]
        ELSE IF ~d.ok THEN [ok |-> FALSE, summary |-> EmptySummary]
        ELSE IF ~r.ok \/ ~WriteReport(r.summary).ok
             THEN [ok |-> FALSE, summary |-> r.summary]
        ELSE [ok |-> TRUE, summary |-> r.summary]

----------------------------------------------------------------------------
(* What the claims speak of, stated on the input and not on the code *)

\* The run has parsed and normalised its input and has not raised.
Looping == pc \in {"loop", "write_json", "write_txt", "finish", "returned"}

\* The elements the for loop has consumed, and the mappings among them.
Consumed == SubSeq(combined_data.v, 1, idx)
Processed == SelectSeq(Consumed, IsDict)

Has(d, k) == \E j \in 1..Len(d.v) : d.v[j][1] = k
Field(d, k) == d.v[CHOOSE j \in 1..Len(d.v) : d.v[j][1] = k][2]

RuleOf(r) == IF Has(r, "rulename") THEN Field(r, "rulename") ELSE Str("unknown")
MatchCount(r) == IF Has(r, "matches") THEN Len(Field(r, "matches").v) ELSE 0
VulnCount(r) ==
    IF Has(r, "vulnerabilities") THEN Len(Field(r, "vulnerabilities").v) ELSE 0
IsPackageScan(r) == RuleOf(r) = Str("package_scan")

RECURSIVE Sum(_)
Sum(s) == IF s = <<>> THEN 0 ELSE Head(s) + Sum(Tail(s))

Repeat(x, n) == [j \in 1..n |-> x]

RECURSIVE ExpectedTypes(_)
ExpectedTypes(rs) ==
    IF rs = <<>> THEN <<>>
    ELSE (IF IsPackageScan(Head(rs))
          THEN Repeat(Str("vulnerability"), VulnCount(Head(rs)))
          ELSE Repeat(Str("finding"), MatchCount(Head(rs))))
         \o ExpectedTypes(Tail(rs))

\* The index in Processed of the last package_scan result, 0 if none.
LastPackageScan ==
    LET hits == {j \in 1..Len(Processed) : IsPackageScan(Processed[j])}
    IN  IF hits = {} THEN 0 ELSE CHOOSE j \in hits : \A k \in hits : k <= j

Severities == {"info", "low", "moderate", "high", "critical", "total"}

\* metadata.vulnerabilities[k] of result r, 0 where a level is absent
SeverityCount(r, k) ==
    IF ~Has(r, "metadata") THEN Num(0)
    ELSE IF ~Has(Field(r, "metadata"), "vulnerabilities") THEN Num(0)
    ELSE IF ~Has(Field(Field(r, "metadata"), "vulnerabilities"), k) THEN Num(0)
    ELSE Field(Field(Field(r, "metadata"), "vulnerabilities"), k)

FindingRecords(s) == {j \in 1..Len(s.all_matches) : s.all_matches[j].type = Str("finding")}

----------------------------------------------------------------------------
(* C1 *)

\* C1: after each entry is processed, and so when reduce_results returns,
\* total_findings is the sum of len(matches) over the processed mappings
\* (0 for an absent matches); the vulnerabilities of a package_scan entry
\* add nothing to it.
C1_TotalFindings ==
    /\ Looping =>
         summary.total_findings =
             Sum([j \in 1..Len(Processed) |-> MatchCount(Processed[j])])
    /\ pc = "returned" => returned.total_findings = summary.total_findings

\* A run that returned after a package_scan entry with vulnerabilities and
\* with matches, next to an entry without a matches field.
C1_Witness ==
    /\ pc = "returned"
    /\ \E j \in 1..Len(Processed) :
          IsPackageScan(Processed[j]) /\ VulnCount(Processed[j]) = 2
          /\ MatchCount(Processed[j]) = 1
    /\ \E j \in 1..Len(Processed) : ~Has(Processed[j], "matches")
    /\ returned.total_findings = 3

----------------------------------------------------------------------------
(* C2 *)

\* C2: all_matches holds one record per match of every processed entry
\* that is not package_scan and one per key of vulnerabilities of every
\* processed package_scan entry, in input order, tagged "finding" and
\* "vulnerability" respectively.
C2_AllMatches ==
    /\ Looping =>
         [j \in 1..Len(summary.all_matches) |-> summary.all_matches[j].type]
             = ExpectedTypes(Processed)
    /\ pc = "returned" => returned.all_matches = summary.all_matches

C2_Witness ==
    /\ pc = "returned"
    /\ \E j, k \in 1..Len(Processed) :
          /\ j < k
          /\ IsPackageScan(Processed[j]) /\ VulnCount(Processed[j]) = 2
          /\ MatchCount(Processed[j]) = 1
          /\ ~IsPackageScan(Processed[k]) /\ MatchCount(Processed[k]) = 2
          /\ VulnCount(Processed[k]) = 1
    /\ Len(returned.all_matches) = 4

----------------------------------------------------------------------------
(* C3 *)

\* C3: once the file is read and parsed, no malformed record is fatal: the
\* only exceptions a run ends with are the read failure and the failure
\* of the second decode of the document.
C3_PerRecordNonFatal ==
    pc = "raised" => raised_at \in {"read", "decode"}

----------------------------------------------------------------------------
(* C4 *)

\* The file is missing or does not hold JSON.
Unparsable == file = Missing \/ file.t = "str"

\* C4: on a missing or invalid file the error is logged before the
\* exception reaches the caller, the output directory is not created, no
\* file is written and nothing is returned.
C4_ReadFailure ==
    /\ Unparsable =>
         /\ pc \in {"start", "read", "reraise", "raised"}
         /\ ~out_dir_created /\ fs = <<>> /\ returned = None
         /\ pc \in {"reraise", "raised"} => log = <<"info", "error">>
         /\ pc = "raised" => raised_at = "read"
    /\ (pc = "raised" /\ raised_at = "read") => Unparsable

C4_Witness ==
    pc = "raised" /\ raised_at = "read" /\ file = Str("not json")

----------------------------------------------------------------------------
(* C5 *)

Warnings == {j \in 1..Len(log) : log[j] = "warning"}

\* C5: an element that is not a mapping costs one warning and changes
\* nothing: the summary is that of the consumed input without those
\* elements, and the warnings are as many as those elements.
C5_SkipNonMapping ==
    Looping =>
        /\ summary = FoldResults(EmptySummary, Processed, 1).summary
        /\ Cardinality(Warnings) = Len(Consumed) - Len(Processed)

C5_Witness ==
    /\ pc = "returned"
    /\ Len(Consumed) = 3
    /\ ~IsDict(Consumed[2])
    /\ IsDict(Consumed[1]) /\ IsDict(Consumed[3])
    /\ MatchCount(Consumed[3]) = 2
    /\ Cardinality(Warnings) = 1

----------------------------------------------------------------------------
(* C6 *)

\* What reduce_results did on this run, once it has ended.
Outcome ==
    [ok |-> pc = "returned", summary |-> IF pc = "returned" THEN returned ELSE EmptySummary]
Ended == pc \in {"returned", "raised"}
SameOutcome(f) ==
    /\ Outcome.ok = ReduceOf(f).ok
    /\ Outcome.ok => Outcome.summary = ReduceOf(f).summary

\* C6: a file holding a JSON string that encodes a document (not itself a
\* string) ends as the file holding the document does; a string is decoded
\* once more and never a third time; a single object ends as the
\* one-element array holding it does.
C6_ShapeIndependent ==
    /\ (Ended /\ file.t = "jstr" /\ file.v.t = "jstr" /\ ~IsStr(file.v.v))
          => SameOutcome(file.v)
    /\ (Looping /\ file.t = "jstr" /\ file.v.t = "jstr" /\ IsStr(file.v.v))
          => combined_data = List(<<file.v.v>>)
    /\ (Ended /\ file.t = "jstr" /\ IsDict(file.v))
          => SameOutcome(JStr(List(<<file.v>>)))

C6_Witness ==
    /\ pc = "returned"
    /\ file.t = "jstr" /\ file.v.t = "jstr" /\ IsList(file.v.v)
    /\ returned.total_findings = 2
    /\ Len(returned.all_matches) = 3

----------------------------------------------------------------------------
(* C7 *)

\* C7: vulnerability_summary is a key of the summary exactly when a
\* package_scan entry was processed, and then holds the six severity
\* counts of the last such entry's metadata.vulnerabilities.
C7_VulnerabilitySummary ==
    /\ Looping =>
         LET last == LastPackageScan
         IN  /\ ("vulnerability_summary" \in DOMAIN summary) <=> (last > 0)
             /\ last > 0 =>
                  /\ DOMAIN summary.vulnerability_summary = Severities
                  /\ \A k \in Severities :
                        summary.vulnerability_summary[k]
                            = SeverityCount(Processed[last], k)
    /\ pc = "returned" => returned = summary

C7_Witness ==
    /\ pc = "returned"
    /\ Cardinality({j \in 1..Len(Processed) : IsPackageScan(Processed[j])}) = 2
    /\ returned.vulnerability_summary.total = Num(3)
    /\ returned.vulnerability_summary.high = Num(0)
    /\ SeverityCount(Processed[1], "high") = Num(1)

----------------------------------------------------------------------------
(* C8 *)

HasRule(k, r) == RuleOf(r) = k

\* C8: findings_by_rule has one key per rule name among the processed
\* entries ("unknown" without a rulename) and maps it to len(matches) of
\* the last processed entry of that name.
C8_LastWriteWins ==
    Looping =>
        LET fbr == summary.findings_by_rule
        IN  /\ {fbr[j][1] : j \in 1..Len(fbr)}
                  = {RuleOf(Processed[j]) : j \in 1..Len(Processed)}
            /\ \A i, j \in 1..Len(fbr) : fbr[i][1] = fbr[j][1] => i = j
            /\ \A j \in 1..Len(fbr) :
                  LET hits == {i \in 1..Len(Processed) : HasRule(fbr[j][1], Processed[i])}
                      last == CHOOSE i \in hits : \A k \in hits : k <= i
                  IN  fbr[j][2] = MatchCount(Processed[last])

C8_Witness ==
    /\ pc = "returned"
    /\ Len(Processed) = 3
    /\ HasRule(Str("eqeq"), Processed[1]) /\ MatchCount(Processed[1]) = 2
    /\ HasRule(Str("eqeq"), Processed[3]) /\ MatchCount(Processed[3]) = 1
    /\ IsPackageScan(Processed[2]) /\ VulnCount(Processed[2]) = 2
    /\ returned.findings_by_rule = <<<<Str("eqeq"), 1>>, <<Str("package_scan"), 1>>>>

----------------------------------------------------------------------------
(* C9 *)

NoUnderscore(s) == \A j \in 1..Len(s) : s[j] # "_"
IsPrefix(a, b) == Len(a) <= Len(b) /\ SubSeq(b, 1, Len(a)) = a

\* The last component of the path: what follows its last '/'.
IsBaseName(b, p) ==
    /\ Len(b) <= Len(p) /\ SubSeq(p, Len(p) - Len(b) + 1, Len(p)) = b
    /\ \A j \in 1..Len(b) : b[j] # "/"
    /\ Len(b) < Len(p) => p[Len(p) - Len(b)] = "/"

\* pathlib's stem: the name without its last suffix
Stem(name) ==
    LET dots == {j \in 1..Len(name) : name[j] = "."}
        last == IF dots = {} THEN 0 ELSE CHOOSE j \in dots : \A k \in dots : k <= j
    IN  IF 1 < last /\ last < Len(name) THEN SubSeq(name, 1, last - 1) ELSE name

\* The name is server_name, '_', the timestamp, '_' and the suffix.
Named(f, suffix) == f.name = server_name \o <<"_", timestamp, "_", suffix>>

NamedFiles ==
    /\ Len(fs) <= 2
    /\ Len(fs) >= 1 => Named(fs[1], "reduced.json")
    /\ Len(fs) = 2 => Named(fs[2], "summary.txt")

\* C9 as stated: server_name is the base name up to its first '_', and
\* the stem of a base name that holds no '_'.
C9_ServerNameIsStem ==
    pc # "start" =>
        \A b \in {basename(combined_file_path)} :
            NoUnderscore(b) => server_name = Stem(b)

\* C9 amended: server_name is the base name up to its first '_', and the
\* whole base name, extension included, where it holds no '_'; both files
\* are named by it and by the one timestamp.
C9_ServerName ==
    pc # "start" =>
        /\ \E k \in 0..Len(combined_file_path) :
             LET b == SubSeq(combined_file_path, k + 1, Len(combined_file_path))
             IN  /\ IsBaseName(b, combined_file_path)
                 /\ IsPrefix(server_name, b)
                 /\ NoUnderscore(server_name)
                 /\ Len(server_name) < Len(b) => b[Len(server_name) + 1] = "_"
                 /\ NoUnderscore(b) => server_name = b
        /\ NamedFiles

C9_Witness ==
    /\ pc = "returned"
    /\ combined_file_path = <<"/", "s", ".", "s">>
    /\ server_name = <<"s", ".", "s">>
    /\ Len(fs) = 2

----------------------------------------------------------------------------
(* C10 *)

\* C10: (i) the records tagged "finding" are at most total_findings, and
\* as many exactly when no processed package_scan entry has matches;
\* (ii) the values of findings_by_rule sum to at most total_findings, and
\* to it exactly when no rule name recurs after an entry with matches.
C10_Counters ==
    Looping =>
        LET fbr == summary.findings_by_rule
            findings == Cardinality(FindingRecords(summary))
            byRule == Sum([j \in 1..Len(fbr) |-> fbr[j][2]])
            P == Processed
        IN  /\ findings <= summary.total_findings
            /\ (findings = summary.total_findings)
                  <=> ~\E j \in 1..Len(P) : IsPackageScan(P[j]) /\ MatchCount(P[j]) > 0
            /\ byRule <= summary.total_findings
            /\ (byRule = summary.total_findings)
                  <=> ~\E i, j \in 1..Len(P) :
                         i < j /\ RuleOf(P[i]) = RuleOf(P[j]) /\ MatchCount(P[i]) > 0

C10_Witness ==
    /\ pc = "returned"
    /\ Cardinality(FindingRecords(returned)) = 1
    /\ Sum([j \in 1..Len(returned.findings_by_rule) |-> returned.findings_by_rule[j][2]]) = 2
    /\ returned.total_findings = 3

====
